---------------------------- MODULE Spec2Model ----------------------------
(***************************************************************************)
(* Model of the Configuration class of hcconfig: five level stores         *)
(* (default, environment, backend, user, dynamic), the merged effective    *)
(* configuration built by buildConfig(), the read-only key policy, the     *)
(* subscription registry and the changed-keys buffer.                      *)
(*                                                                         *)
(* A ConfigValue is modelled with its JavaScript typeof: a scalar is       *)
(* [typeof |-> "number", value |-> v], a configuration object (cell) is    *)
(* [typeof |-> "object", value, level, readonly], and a missing property   *)
(* is Undefined.                                                           *)
(***************************************************************************)
EXTENDS Integers, Sequences, FiniteSets, TLC

\* ------------------------------------------------------------------ bounds
\* number of mutating calls (setConfig, deleteConfig, set*Config) in a run
MaxOps == 3
\* number of public calls and backend events in a run with subscribers
MaxCalls == 3
\* Math.random() is drawn from 0..MaxRnd when a listener id is made
MaxRnd == 1
\* number of calls in a run of subscribe, unsubscribe and setConfig calls
MaxRegCalls == 5
\* number of calls and events (timers firing, fetches completing) in a run of
\* the backend auto-update loop
MaxLoopEvents == 6
\* number of calls in a run with a key that has no default
MaxAccessCalls == 3
\* number of subscribe and setConfig calls in a run with callbacks that act
MaxActingCalls == 4
\* number of constructor and static calls in a run
MaxStaticCalls == 5

\* ------------------------------------------------------------- vocabulary
DefaultKeys == {"foo", "bar"}
AllKeys == DefaultKeys
\* the scalar values callers write
Vals == {1, 2}
Levels == <<"DEFAULT", "ENVIRONMENT", "BACKEND", "USER", "DYNAMIC">>

Undefined == [typeof |-> "undefined"]
Scalar(v) == [typeof |-> "number", value |-> v]

\* the plain objects a caller can pass as a Partial<T>
PartialsOf(vs) == UNION {[S -> {Scalar(v) : v \in vs}] : S \in SUBSET AllKeys}
Partials == PartialsOf(Vals)

\* the key lists a caller can subscribe with
KeyLists == SUBSET AllKeys

EmptyObj == [k \in {} |-> Undefined]

\* the readOnlyKeys option: no key, or one of the two keys (the code treats all
\* keys alike, so the other key stands for the writable ones)
ReadOnlyOptions == {{}, {"foo"}}

\* the errors a backend update function can reject with
Errors == {"E1", "E2"}

\* the defaults object passed to the constructor
DefaultValues == [k \in DefaultKeys |-> IF k = "foo" THEN Scalar(1) ELSE Scalar(2)]

VARIABLES
    readOnlyKeys,       \* options.readOnlyKeys
    backendUpdateFn,    \* whether options.backendUpdateFn is defined
    backendUpdateTimeout, \* this.backendUpdateTimeout: 0 for null, else a timer handle
    timers,             \* the timers that are set and neither fired nor cleared
    timerCount,         \* handles given out by setTimeout so far
    fetches,            \* the backendUpdateFn calls awaiting their result, by origin
    defaultConfig,      \* this.defaultConfig
    environmentConfig,  \* this.environmentConfig
    backendConfig,      \* this.backendConfig
    userConfig,         \* this.userConfig
    dynamicConfig,      \* this.dynamicConfig
    config,             \* this.config, the effective mapping
    changedKeysBuffer,  \* this.changedKeysBuffer
    listeners,          \* this.listeners, in registration order
    closures,           \* the unsubscribe closures handed out: token -> the id it
                        \* captured, and whether it has been called
    lastCall,           \* the public method called last: its name, the keys its
                        \* arguments name, its override flag, and the keys its
                        \* target store held when it was called
    ret,                \* what that call returned (or the error it threw)
    cause,              \* the cause kept by the ConfigurationError it threw, else "none"
    log,                \* the callback invocations made during that call, in order
    opCount,            \* public calls made so far
    instances,          \* the Configuration objects made by the constructor calls of
                        \* the run, in order of creation
    instance,           \* Configuration.instance: 0 for null, else an index of instances
    made,               \* the object the last constructor or getInstance call
                        \* returned (an index of instances), 0 when it returned none
    returned,           \* the value the last static getter returned
    window              \* the public methods called so far while a backendUpdateFn
                        \* call was awaited

vars == <<readOnlyKeys, backendUpdateFn, backendUpdateTimeout, timers, timerCount,
          fetches, defaultConfig, environmentConfig, backendConfig, userConfig,
          dynamicConfig, config, changedKeysBuffer, listeners, closures, lastCall,
          ret, cause, log, opCount, instances, instance, made, returned, window>>

\* the singleton registry, the objects it can point to and what the static calls
\* hand back: no instance method writes any of them
registry == <<instances, instance, made, returned>>

\* --------------------------------------------------------- object helpers
\* { ...a, ...b }
Spread(a, b) ==
    [k \in (DOMAIN a) \cup (DOMAIN b) |-> IF k \in DOMAIN b THEN b[k] ELSE a[k]]

\* obj[key], undefined when the property is missing
Prop(obj, key) == IF key \in DOMAIN obj THEN obj[key] ELSE Undefined

\* a delete that empties the object
DeleteAll(obj, key) == [k \in {} |-> obj[k]]

\* a delete that removes nothing
DeleteNothing(obj, key) == obj

\* delete obj[key]
Delete(obj, key) == [k \in (DOMAIN obj) \ {key} |-> obj[k]]

\* ------------------------------------------------------ building the view
buildConfigurationObjects(conf, level) ==
    [k \in DOMAIN conf |->
        IF conf[k].typeof = "object"
        THEN [conf[k] EXCEPT !.level = level]
        ELSE [typeof |-> "object", value |-> conf[k].value,
              readonly |-> (k \in readOnlyKeys), level |-> level]]

buildDefaultValues(conf) == buildConfigurationObjects(conf, "DEFAULT")

\* the overlay with the USER store spread after the DYNAMIC store
OverlayUserLast(def, env, be, usr, dyn) ==
    Spread(Spread(Spread(Spread(buildDefaultValues(def),
                                buildConfigurationObjects(env, "ENVIRONMENT")),
                         buildConfigurationObjects(be, "BACKEND")),
                  buildConfigurationObjects(dyn, "DYNAMIC")),
           buildConfigurationObjects(usr, "USER"))

\* the object literal of buildConfig: the five built stores spread in order
Overlay(def, env, be, usr, dyn) ==
    Spread(Spread(Spread(Spread(buildDefaultValues(def),
                                buildConfigurationObjects(env, "ENVIRONMENT")),
                         buildConfigurationObjects(be, "BACKEND")),
                  buildConfigurationObjects(usr, "USER")),
           buildConfigurationObjects(dyn, "DYNAMIC"))

resetReadOnlyFlags(cfg) ==
    [k \in DOMAIN cfg |->
        IF k \in readOnlyKeys /\ cfg[k].typeof = "object"
        THEN [cfg[k] EXCEPT !.readonly = TRUE]
        ELSE cfg[k]]

\* this.config after buildConfig
Effective(def, env, be, usr, dyn) == resetReadOnlyFlags(Overlay(def, env, be, usr, dyn))

\* every store taking the effective cell of its keys, whatever level it is from
AliasedOverlay(store, level, cfg) == [k \in DOMAIN store |-> cfg[k]]

\* every store cell taking the level tag of the effective cell of its key
AliasedUntagged(store, level, cfg) ==
    [k \in DOMAIN store |->
        IF cfg[k].level = level THEN cfg[k] ELSE [store[k] EXCEPT !.level = cfg[k].level]]

\* The cells of the effective mapping are the very objects held by the stores
\* (buildConfigurationObjects returns an object-typed value itself), so the level
\* and readonly assignments made while building are visible in the store as well.
Aliased(store, level, cfg) ==
    [k \in DOMAIN store |->
        IF cfg[k].level = level THEN cfg[k] ELSE [store[k] EXCEPT !.level = level]]

\* ------------------------------------------------------------- listeners
\* relevantChanges without the look into the changed-keys buffer
relevantChangesAllKeys(listener, cfg, buffer) ==
    [k \in listener.keys |-> Prop(cfg, k)]

\* relevantChanges of one listener
relevantChanges(listener, cfg, buffer) ==
    [k \in listener.keys \cap buffer |-> Prop(cfg, k)]

\* a keyed listener called once per changed key instead of once per pass
RECURSIVE DeliveriesPerKey(_, _, _)
DeliveriesPerKey(lst, cfg, buffer) ==
    IF lst = <<>> THEN <<>>
    ELSE LET l == Head(lst)
             rest == DeliveriesPerKey(Tail(lst), cfg, buffer)
             hit == l.keys \cap buffer
             one(k) == [cb |-> l.cb, payload |-> [x \in {k} |-> Prop(cfg, x)]]
         IN  IF l.keys = {}
             THEN <<[cb |-> l.cb, payload |-> cfg]>> \o rest
             ELSE IF hit = {} THEN rest
             ELSE IF Cardinality(hit) = 1
             THEN <<one(CHOOSE k \in hit : TRUE)>> \o rest
             ELSE LET a == CHOOSE k \in hit : TRUE
                      b == CHOOSE k \in hit \ {a} : TRUE
                  IN  <<one(a), one(b)>> \o rest

\* a listener of all keys skipped when the buffer is empty
RECURSIVE DeliveriesOnlyChanged(_, _, _)
DeliveriesOnlyChanged(lst, cfg, buffer) ==
    IF lst = <<>> THEN <<>>
    ELSE LET l == Head(lst)
             rest == DeliveriesOnlyChanged(Tail(lst), cfg, buffer)
             changes == [k \in l.keys \cap buffer |-> Prop(cfg, k)]
         IN  IF l.keys = {}
             THEN IF buffer = {} THEN rest
                  ELSE <<[cb |-> l.cb, payload |-> cfg]>> \o rest
             ELSE IF DOMAIN changes # {}
                  THEN <<[cb |-> l.cb, payload |-> changes]>> \o rest
                  ELSE rest

\* the callback invocations triggerListeners makes, in order
RECURSIVE Deliveries(_, _, _)
Deliveries(lst, cfg, buffer) ==
    IF lst = <<>> THEN <<>>
    ELSE LET l == Head(lst)
             rest == Deliveries(Tail(lst), cfg, buffer)
         IN  IF l.keys = {}
             THEN <<[cb |-> l.cb, payload |-> cfg]>> \o rest
             ELSE IF DOMAIN relevantChanges(l, cfg, buffer) # {}
                  THEN <<[cb |-> l.cb, payload |-> relevantChanges(l, cfg, buffer)]>> \o rest
                  ELSE rest

triggerListeners(lst, cfg, buffer) == Deliveries(lst, cfg, buffer)

\* ---------------------------------------------------------------- getters
getValue(key) ==
    IF key \notin DOMAIN config THEN Undefined
    ELSE IF config[key].typeof = "object" THEN Scalar(config[key].value)
    ELSE config[key]

getConfig(key) == Prop(config, key)

getConfigsForLevel(level) ==
    CASE level = "DEFAULT" -> defaultConfig
      [] level = "ENVIRONMENT" -> environmentConfig
      [] level = "BACKEND" -> backendConfig
      [] level = "USER" -> userConfig
      [] level = "DYNAMIC" -> dynamicConfig
      [] OTHER -> Undefined

\* ------------------------------------------------------------------- Init
Call(op, keys, override, held) ==
    [op |-> op, keys |-> keys, override |-> override, held |-> held]

InitWith(fns) ==
    /\ readOnlyKeys \in ReadOnlyOptions
    /\ backendUpdateFn \in fns
    /\ backendUpdateTimeout = 0
    /\ timers = {}
    /\ timerCount = 0
    /\ fetches = <<>>
    /\ defaultConfig = buildDefaultValues(DefaultValues)
    /\ config = Effective(buildDefaultValues(DefaultValues),
                          EmptyObj, EmptyObj, EmptyObj, EmptyObj)
    /\ environmentConfig = EmptyObj
    /\ backendConfig = EmptyObj
    /\ userConfig = EmptyObj
    /\ dynamicConfig = EmptyObj
    /\ changedKeysBuffer = {}
    /\ listeners = <<>>
    /\ closures = <<>>
    /\ lastCall = Call("new", {}, FALSE, {})
    /\ ret = "void"
    /\ cause = "none"
    /\ log = <<>>
    /\ opCount = 0
    /\ instances = <<>>
    /\ instance = 0
    /\ made = 0
    /\ returned = Undefined
    /\ window = {}

\* constructed without a backend update function
Init == InitWith({FALSE})

\* constructed with a backend update function, not started immediately
InitBackend == InitWith({TRUE})

\* a public method called between a backendUpdateFn call and its result runs
\* before the await of runBackendAutoUpdate() resumes
Window(op) == IF Len(fetches) > 0 THEN window \cup {op} ELSE window

\* the options and the backend loop are left alone
noLoop == UNCHANGED <<readOnlyKeys, backendUpdateFn, backendUpdateTimeout, timers,
                      timerCount, fetches>>

\* a rebuild that delivers and leaves the buffer as it is
buildConfigKeepsBuffer(env, be, usr, dyn, buffer) ==
    LET cfg == Effective(defaultConfig, env, be, usr, dyn) IN
    /\ config' = cfg
    /\ defaultConfig' = Aliased(defaultConfig, "DEFAULT", cfg)
    /\ environmentConfig' = Aliased(env, "ENVIRONMENT", cfg)
    /\ backendConfig' = Aliased(be, "BACKEND", cfg)
    /\ userConfig' = Aliased(usr, "USER", cfg)
    /\ dynamicConfig' = Aliased(dyn, "DYNAMIC", cfg)
    /\ log' = triggerListeners(listeners, cfg, buffer)
    /\ changedKeysBuffer' = buffer

\* buildConfig(): rebuild the view from the given stores, deliver, clear the buffer
buildConfig(env, be, usr, dyn, buffer) ==
    LET cfg == Effective(defaultConfig, env, be, usr, dyn) IN
    /\ config' = cfg
    /\ defaultConfig' = Aliased(defaultConfig, "DEFAULT", cfg)
    /\ environmentConfig' = Aliased(env, "ENVIRONMENT", cfg)
    /\ backendConfig' = Aliased(be, "BACKEND", cfg)
    /\ userConfig' = Aliased(usr, "USER", cfg)
    /\ dynamicConfig' = Aliased(dyn, "DYNAMIC", cfg)
    /\ log' = triggerListeners(listeners, cfg, buffer)
    /\ changedKeysBuffer' = {}

\* a buffer that takes only the keys whose effective value differs from the new one
updateChangedKeysBufferDiff(buffer, newConf, oldConf) ==
    buffer \cup {k \in DOMAIN newConf : getValue(k) # newConf[k]}

\* updateChangedKeysBufferWithPartialConfig(newConf, oldConf?): the buffer afterwards.
\* The loop runs over the keys of newConf only.
updateChangedKeysBufferWithPartialConfig(buffer, newConf, oldConf) ==
    buffer \cup (DOMAIN newConf)
           \cup {k \in DOMAIN newConf : oldConf # Undefined /\ k \notin DOMAIN newConf}

\* a filter that keeps the read-only keys and drops the others
filteredConfigInverted(conf) ==
    [k \in {x \in DOMAIN conf : x \in readOnlyKeys} |-> conf[k]]

\* setUserConfig without its read-only filter
filteredConfigNone(conf) == conf

\* the filteredConfig of setUserConfig
filteredConfig(conf) == [k \in {x \in DOMAIN conf : x \notin readOnlyKeys} |-> conf[k]]

\* a dynamic cell that keeps readonly = true when it is made from a DEFAULT cell
DynamicCellDefaultReadOnly(conf, value) ==
    IF conf.typeof = "object"
    THEN [conf EXCEPT !.value = value.value, !.level = "DYNAMIC",
                      !.readonly = (conf.level = "DEFAULT")]
    ELSE [typeof |-> "object", value |-> value.value, level |-> "DYNAMIC"]

\* the cell setConfig stores at the dynamic level
DynamicCell(conf, value) ==
    IF conf.typeof = "object"
    THEN [conf EXCEPT !.value = value.value, !.level = "DYNAMIC", !.readonly = FALSE]
    ELSE [typeof |-> "object", value |-> value.value, level |-> "DYNAMIC"]

\* a call that returns or throws before it changes anything
NoEffect ==
    /\ log' = <<>>
    /\ UNCHANGED <<defaultConfig, environmentConfig, backendConfig, userConfig,
                   dynamicConfig, config, changedKeysBuffer>>

\* setConfig without its read-only check
setConfigNoReadOnlyCheck(key, value) ==
    /\ lastCall' = Call("setConfig", {key}, FALSE, DOMAIN dynamicConfig)
    /\ cause' = "none"
    /\ UNCHANGED registry
    /\ window' = Window(lastCall'.op)
    /\ opCount' = opCount + 1
    /\ UNCHANGED <<listeners, closures>>
    /\ noLoop
    /\ LET conf == getConfig(key)
       IN  IF conf = Undefined
           THEN /\ ret' = "UNKNOWN_CONFIG_KEY"
                /\ NoEffect
           ELSE /\ ret' = "true"
                /\ buildConfig(environmentConfig, backendConfig, userConfig,
                               Spread(dynamicConfig,
                                      [k \in {key} |-> DynamicCell(conf, value)]),
                               changedKeysBuffer \cup {key})

\* ---------------------------------------------------------------- actions
setConfig(key, value) ==
    /\ lastCall' = Call("setConfig", {key}, FALSE, DOMAIN dynamicConfig)
    /\ cause' = "none"
    /\ UNCHANGED registry
    /\ window' = Window(lastCall'.op)
    /\ opCount' = opCount + 1
    /\ UNCHANGED <<listeners, closures>>
    /\ noLoop
    /\ LET conf == getConfig(key)
       IN  IF conf = Undefined
           THEN /\ ret' = "UNKNOWN_CONFIG_KEY"
                /\ NoEffect
           ELSE IF key \in readOnlyKeys
           THEN /\ ret' = "false"
                /\ NoEffect
           ELSE /\ ret' = "true"
                /\ buildConfig(environmentConfig, backendConfig, userConfig,
                               Spread(dynamicConfig,
                                      [k \in {key} |-> DynamicCell(conf, value)]),
                               changedKeysBuffer \cup {key})

deleteConfig(key) ==
    /\ lastCall' = Call("deleteConfig", {key}, FALSE, DOMAIN dynamicConfig)
    /\ cause' = "none"
    /\ UNCHANGED registry
    /\ window' = Window(lastCall'.op)
    /\ opCount' = opCount + 1
    /\ UNCHANGED <<listeners, closures>>
    /\ noLoop
    /\ ret' = "void"
    /\ buildConfig(environmentConfig, backendConfig, userConfig,
                   Delete(dynamicConfig, key), changedKeysBuffer \cup {key})

\* the override flag ignored: always a merge
LevelWriteAlwaysMerge(store, conf, level, override) ==
    Spread(store, buildConfigurationObjects(conf, level))

\* the override flag ignored: always a replacement
LevelWriteAlwaysReplace(store, conf, level, override) ==
    buildConfigurationObjects(conf, level)

\* the store a set*Config call leaves behind
LevelWriteFiltered(store, conf, level, override) ==
    IF override
    THEN buildConfigurationObjects(filteredConfig(conf), level)
    ELSE Spread(store, buildConfigurationObjects(filteredConfig(conf), level))

LevelWrite(store, conf, level, override) ==
    IF override
    THEN buildConfigurationObjects(conf, level)
    ELSE Spread(store, buildConfigurationObjects(conf, level))

\* the buffer a set*Config call leaves behind
LevelBuffer(store, conf, override) ==
    IF override
    THEN updateChangedKeysBufferWithPartialConfig(changedKeysBuffer, conf, store)
    ELSE updateChangedKeysBufferWithPartialConfig(changedKeysBuffer, conf, Undefined)

setEnvironmentConfig(conf, override) ==
    /\ lastCall' = Call("setEnvironmentConfig", DOMAIN conf, override, DOMAIN environmentConfig)
    /\ cause' = "none"
    /\ UNCHANGED registry
    /\ window' = Window(lastCall'.op)
    /\ opCount' = opCount + 1
    /\ UNCHANGED <<listeners, closures>>
    /\ noLoop
    /\ ret' = "void"
    /\ buildConfig(LevelWrite(environmentConfig, conf, "ENVIRONMENT", override),
                   backendConfig, userConfig, dynamicConfig,
                   LevelBuffer(environmentConfig, conf, override))

setBackendConfig(conf, override) ==
    /\ lastCall' = Call("setBackendConfig", DOMAIN conf, override, DOMAIN backendConfig)
    /\ cause' = "none"
    /\ UNCHANGED registry
    /\ window' = Window(lastCall'.op)
    /\ opCount' = opCount + 1
    /\ UNCHANGED <<listeners, closures>>
    /\ noLoop
    /\ ret' = "void"
    /\ buildConfig(environmentConfig,
                   LevelWrite(backendConfig, conf, "BACKEND", override),
                   userConfig, dynamicConfig,
                   LevelBuffer(backendConfig, conf, override))

setUserConfig(conf, override) ==
    /\ lastCall' = Call("setUserConfig", DOMAIN conf, override, DOMAIN userConfig)
    /\ cause' = "none"
    /\ UNCHANGED registry
    /\ window' = Window(lastCall'.op)
    /\ opCount' = opCount + 1
    /\ UNCHANGED <<listeners, closures>>
    /\ noLoop
    /\ ret' = "void"
    /\ buildConfig(environmentConfig, backendConfig,
                   LevelWrite(userConfig, filteredConfig(conf), "USER", override),
                   dynamicConfig,
                   LevelBuffer(userConfig, filteredConfig(conf), override))

subscribe(keys, rnd) ==
    /\ lastCall' = Call("subscribe", keys, FALSE, {})
    /\ cause' = "none"
    /\ UNCHANGED registry
    /\ window' = Window(lastCall'.op)
    /\ LET id == <<Len(listeners), rnd>>
           token == Len(closures) + 1
       IN  /\ listeners' = Append(listeners, [id |-> id, keys |-> keys, cb |-> token])
           /\ closures' = Append(closures, [id |-> id, called |-> FALSE])
    /\ ret' = "unsubscribe"
    /\ NoEffect
    /\ opCount' = opCount + 1
    /\ noLoop

\* an unsubscribe function that leaves the registry as it is
unsubscribeKeepsAll(token) ==
    /\ lastCall' = Call("unsubscribe", {}, FALSE, {})
    /\ cause' = "none"
    /\ UNCHANGED registry
    /\ window' = Window(lastCall'.op)
    /\ listeners' = listeners
    /\ closures' = [closures EXCEPT ![token].called = TRUE]
    /\ ret' = "void"
    /\ NoEffect
    /\ opCount' = opCount + 1
    /\ noLoop

\* calling the function returned by the token-th subscribe call
unsubscribe(token) ==
    /\ lastCall' = Call("unsubscribe", {}, FALSE, {})
    /\ cause' = "none"
    /\ UNCHANGED registry
    /\ window' = Window(lastCall'.op)
    /\ listeners' = SelectSeq(listeners, LAMBDA l : l.id # closures[token].id)
    /\ closures' = [closures EXCEPT ![token].called = TRUE]
    /\ ret' = "void"
    /\ NoEffect
    /\ opCount' = opCount + 1
    /\ noLoop

\* ------------------------------------------------------ backend auto-update
\* clearTimeout(handle): the timers still pending afterwards
clearTimeout(handle) == timers \ {handle}

\* runBackendAutoUpdate() up to its await: the pending timer is cleared (the handle
\* is kept) and the backend update function is called
runBackendAutoUpdate(pending, origin) ==
    /\ timers' = (IF backendUpdateTimeout # 0
                  THEN pending \ {backendUpdateTimeout} ELSE pending)
    /\ fetches' = Append(fetches, origin)
    /\ UNCHANGED <<backendUpdateTimeout, timerCount>>

startBackendAutoUpdate ==
    /\ lastCall' = Call("startBackendAutoUpdate", {}, FALSE, {})
    /\ cause' = "none"
    /\ UNCHANGED registry
    /\ window' = Window(lastCall'.op)
    /\ opCount' = opCount + 1
    /\ NoEffect
    /\ UNCHANGED <<readOnlyKeys, backendUpdateFn, listeners, closures>>
    /\ IF ~backendUpdateFn
       THEN /\ ret' = "NO_BACKEND_UPDATE_FN"
            /\ UNCHANGED <<backendUpdateTimeout, timers, timerCount, fetches>>
       ELSE IF backendUpdateTimeout # 0
       THEN /\ ret' = "true"
            /\ UNCHANGED <<backendUpdateTimeout, timers, timerCount, fetches>>
       ELSE /\ ret' = "pending"
            /\ runBackendAutoUpdate(timers, "start")

\* a stop that also gives up the backendUpdateFn calls that are awaited
stopAbortsFetch ==
    /\ lastCall' = Call("stopBackendAutoUpdate", {}, FALSE, {})
    /\ cause' = "none"
    /\ UNCHANGED registry
    /\ window' = Window(lastCall'.op)
    /\ opCount' = opCount + 1
    /\ ret' = "void"
    /\ NoEffect
    /\ UNCHANGED <<readOnlyKeys, backendUpdateFn, listeners, closures, timerCount>>
    /\ fetches' = <<>>
    /\ IF backendUpdateTimeout # 0
       THEN /\ timers' = clearTimeout(backendUpdateTimeout)
            /\ backendUpdateTimeout' = 0
       ELSE UNCHANGED <<backendUpdateTimeout, timers>>

stopBackendAutoUpdate ==
    /\ lastCall' = Call("stopBackendAutoUpdate", {}, FALSE, {})
    /\ cause' = "none"
    /\ UNCHANGED registry
    /\ window' = Window(lastCall'.op)
    /\ opCount' = opCount + 1
    /\ ret' = "void"
    /\ NoEffect
    /\ UNCHANGED <<readOnlyKeys, backendUpdateFn, listeners, closures, timerCount, fetches>>
    /\ IF backendUpdateTimeout # 0
       THEN /\ timers' = clearTimeout(backendUpdateTimeout)
            /\ backendUpdateTimeout' = 0
       ELSE UNCHANGED <<backendUpdateTimeout, timers>>

\* a pending timer fires and its callback calls runBackendAutoUpdate()
timerFires(t) ==
    /\ t \in timers
    /\ lastCall' = Call("timer", {}, FALSE, {})
    /\ cause' = "none"
    /\ UNCHANGED registry
    /\ UNCHANGED window
    /\ opCount' = opCount + 1
    /\ ret' = "void"
    /\ NoEffect
    /\ UNCHANGED <<readOnlyKeys, backendUpdateFn, listeners, closures>>
    /\ runBackendAutoUpdate(timers \ {t}, "timer")

RemoveAt(seq, i) == [j \in 1..(Len(seq) - 1) |-> IF j < i THEN seq[j] ELSE seq[j + 1]]

\* a resolved call that applies its result to the stores as they were when the
\* instance was made, losing the dynamic writes made since
fetchResolvedDropsDynamic(i, res) ==
    /\ i \in 1..Len(fetches)
    /\ lastCall' = Call("fetchResolved", DOMAIN res, TRUE, DOMAIN backendConfig)
    /\ cause' = "none"
    /\ UNCHANGED registry
    /\ UNCHANGED window
    /\ opCount' = opCount + 1
    /\ ret' = "void"
    /\ UNCHANGED <<readOnlyKeys, backendUpdateFn, listeners, closures>>
    /\ IF DOMAIN res # {}
       THEN buildConfig(environmentConfig,
                        LevelWrite(backendConfig, res, "BACKEND", TRUE),
                        userConfig, EmptyObj,
                        LevelBuffer(backendConfig, res, TRUE))
       ELSE NoEffect
    /\ fetches' = RemoveAt(fetches, i)
    /\ timerCount' = timerCount + 1
    /\ backendUpdateTimeout' = timerCount + 1
    /\ timers' = timers \cup {timerCount + 1}

\* a resolved call that applies its result and schedules no next run
fetchResolvedNoTimer(i, res) ==
    /\ i \in 1..Len(fetches)
    /\ lastCall' = Call("fetchResolved", DOMAIN res, TRUE, DOMAIN backendConfig)
    /\ cause' = "none"
    /\ UNCHANGED registry
    /\ UNCHANGED window
    /\ opCount' = opCount + 1
    /\ ret' = "void"
    /\ UNCHANGED <<readOnlyKeys, backendUpdateFn, listeners, closures>>
    /\ IF DOMAIN res # {}
       THEN buildConfig(environmentConfig,
                        LevelWrite(backendConfig, res, "BACKEND", TRUE),
                        userConfig, dynamicConfig,
                        LevelBuffer(backendConfig, res, TRUE))
       ELSE NoEffect
    /\ fetches' = RemoveAt(fetches, i)
    /\ UNCHANGED <<timerCount, backendUpdateTimeout, timers>>

\* the i-th awaited backendUpdateFn call resolves with res: a non-empty result is
\* passed to setBackendConfig(res, true), then the next run is scheduled
fetchResolved(i, res) ==
    /\ i \in 1..Len(fetches)
    /\ lastCall' = Call("fetchResolved", DOMAIN res, TRUE, DOMAIN backendConfig)
    /\ cause' = "none"
    /\ UNCHANGED registry
    /\ UNCHANGED window
    /\ opCount' = opCount + 1
    /\ ret' = "void"
    /\ UNCHANGED <<readOnlyKeys, backendUpdateFn, listeners, closures>>
    /\ IF DOMAIN res # {}
       THEN buildConfig(environmentConfig,
                        LevelWrite(backendConfig, res, "BACKEND", TRUE),
                        userConfig, dynamicConfig,
                        LevelBuffer(backendConfig, res, TRUE))
       ELSE NoEffect
    /\ fetches' = RemoveAt(fetches, i)
    /\ timerCount' = timerCount + 1
    /\ backendUpdateTimeout' = timerCount + 1
    /\ timers' = timers \cup {timerCount + 1}

\* the name under which a rejected backendUpdateFn call is recorded, by the caller
\* of the runBackendAutoUpdate() that awaited it
RejectedOp(origin) ==
    CASE origin = "start" -> "startFetchRejected"
      [] origin = "timer" -> "timerFetchRejected"
      [] origin = "constructor" -> "constructorFetchRejected"

\* a rejection that schedules the next run all the same
fetchRejectedReschedules(i, e) ==
    /\ i \in 1..Len(fetches)
    /\ lastCall' = Call(RejectedOp(fetches[i]), {}, FALSE, {})
    /\ opCount' = opCount + 1
    /\ ret' = "BACKEND_UPDATE_FAILED"
    /\ cause' = e
    /\ UNCHANGED registry
    /\ UNCHANGED window
    /\ NoEffect
    /\ UNCHANGED <<readOnlyKeys, backendUpdateFn, listeners, closures>>
    /\ fetches' = RemoveAt(fetches, i)
    /\ timerCount' = timerCount + 1
    /\ backendUpdateTimeout' = timerCount + 1
    /\ timers' = timers \cup {timerCount + 1}

\* the i-th awaited backendUpdateFn call rejects with error e: runBackendAutoUpdate
\* throws BACKEND_UPDATE_FAILED with e as its cause and schedules nothing
fetchRejected(i, e) ==
    /\ i \in 1..Len(fetches)
    /\ lastCall' = Call(RejectedOp(fetches[i]), {}, FALSE, {})
    /\ opCount' = opCount + 1
    /\ ret' = "BACKEND_UPDATE_FAILED"
    /\ cause' = e
    /\ UNCHANGED registry
    /\ UNCHANGED window
    /\ NoEffect
    /\ UNCHANGED <<readOnlyKeys, backendUpdateFn, listeners, closures,
                   backendUpdateTimeout, timers, timerCount>>
    /\ fetches' = RemoveAt(fetches, i)

\* ------------------------------------------------- construction and singleton
\* a second defaults object, differing from the first in both values
OtherDefaults == [k \in DefaultKeys |-> IF k = "foo" THEN Scalar(2) ELSE Scalar(1)]

\* what callers pass as defaultConfig: an object, or nothing at all
DefaultsArgs == {DefaultValues, OtherDefaults, Undefined}

\* Object.keys(x) throws a TypeError for undefined and null
KeysThrow(x) == x = Undefined

\* !x for the values passed as defaultConfig
Falsy(x) == x = Undefined

\* a new object with the defaults also written to its ENVIRONMENT store
NewInstanceSeeded(D) ==
    [defaultConfig |-> buildDefaultValues(D),
     environmentConfig |-> buildConfigurationObjects(D, "ENVIRONMENT"),
     backendConfig |-> EmptyObj,
     userConfig |-> EmptyObj,
     dynamicConfig |-> EmptyObj,
     config |-> Effective(buildDefaultValues(D),
                          buildConfigurationObjects(D, "ENVIRONMENT"),
                          EmptyObj, EmptyObj, EmptyObj)]

\* the object the constructor leaves behind: field initialisers, then
\* buildDefaultValues(defaultConfig) and buildConfig()
NewInstance(D) ==
    [defaultConfig |-> buildDefaultValues(D),
     environmentConfig |-> EmptyObj,
     backendConfig |-> EmptyObj,
     userConfig |-> EmptyObj,
     dynamicConfig |-> EmptyObj,
     config |-> Effective(buildDefaultValues(D), EmptyObj, EmptyObj, EmptyObj, EmptyObj)]

\* getValue(key) of an object whose effective mapping is cfg
ValueOf(cfg, key) ==
    IF key \notin DOMAIN cfg THEN Undefined
    ELSE IF cfg[key].typeof = "object" THEN Scalar(cfg[key].value)
    ELSE cfg[key]

\* the name under which a constructor call is recorded
ConstructOp(singleton) == IF singleton THEN "constructSingleton" ELSE "construct"

\* an object's own state is not touched
noInstanceChange ==
    /\ UNCHANGED window
    /\ NoEffect
    /\ noLoop
    /\ UNCHANGED <<listeners, closures>>

\* a constructor that never looks at Configuration.instance
constructAlwaysNew(D, singleton) ==
    /\ lastCall' = Call(ConstructOp(singleton), {}, FALSE, {})
    /\ opCount' = opCount + 1
    /\ noInstanceChange
    /\ returned' = Undefined
    /\ IF KeysThrow(D)
       THEN /\ ret' = "TypeError"
            /\ cause' = "none"
            /\ made' = 0
            /\ UNCHANGED <<instances, instance>>
       ELSE /\ ret' = "instance"
            /\ cause' = "none"
            /\ instances' = Append(instances, NewInstance(D))
            /\ made' = Len(instances) + 1
            /\ instance' = IF singleton THEN Len(instances) + 1 ELSE instance

\* a constructor that registers every object it makes
constructAlwaysRegisters(D, singleton) ==
    /\ lastCall' = Call(ConstructOp(singleton), {}, FALSE, {})
    /\ opCount' = opCount + 1
    /\ noInstanceChange
    /\ returned' = Undefined
    /\ IF instance # 0 /\ singleton
       THEN /\ ret' = "instance"
            /\ cause' = "none"
            /\ made' = instance
            /\ UNCHANGED <<instances, instance>>
       ELSE IF KeysThrow(D)
       THEN /\ ret' = "TypeError"
            /\ cause' = "none"
            /\ made' = 0
            /\ UNCHANGED <<instances, instance>>
       ELSE /\ ret' = "instance"
            /\ cause' = "none"
            /\ instances' = Append(instances, NewInstance(D))
            /\ made' = Len(instances) + 1
            /\ instance' = Len(instances) + 1

\* new Configuration(D, {singleton}): the registered singleton is returned when
\* singleton is asked for and one exists; otherwise Object.keys(D) throws for a
\* missing D before anything is registered, or the object is built and, with
\* singleton, registered
construct(D, singleton) ==
    /\ lastCall' = Call(ConstructOp(singleton), {}, FALSE, {})
    /\ opCount' = opCount + 1
    /\ noInstanceChange
    /\ returned' = Undefined
    /\ IF instance # 0 /\ singleton
       THEN /\ ret' = "instance"
            /\ cause' = "none"
            /\ made' = instance
            /\ UNCHANGED <<instances, instance>>
       ELSE IF KeysThrow(D)
       THEN /\ ret' = "TypeError"
            /\ cause' = "none"
            /\ made' = 0
            /\ UNCHANGED <<instances, instance>>
       ELSE /\ ret' = "instance"
            /\ cause' = "none"
            /\ instances' = Append(instances, NewInstance(D))
            /\ made' = Len(instances) + 1
            /\ instance' = IF singleton THEN Len(instances) + 1 ELSE instance

\* a getInstance that builds a new singleton on every call with defaults
getInstanceAlwaysNew(D) ==
    /\ lastCall' = Call("getInstance", {}, FALSE, {})
    /\ opCount' = opCount + 1
    /\ noInstanceChange
    /\ returned' = Undefined
    /\ cause' = "none"
    /\ IF Falsy(D)
       THEN IF instance = 0
            THEN /\ ret' = "INSTANCE_NEEDS_DEFAULTCONFIGS"
                 /\ made' = 0
                 /\ UNCHANGED <<instances, instance>>
            ELSE /\ ret' = "instance"
                 /\ made' = instance
                 /\ UNCHANGED <<instances, instance>>
       ELSE /\ ret' = "instance"
            /\ instances' = Append(instances, NewInstance(D))
            /\ made' = Len(instances) + 1
            /\ instance' = Len(instances) + 1

\* Configuration.getInstance(D): D = Undefined when called without arguments
getInstance(D) ==
    /\ lastCall' = Call("getInstance", {}, FALSE, {})
    /\ opCount' = opCount + 1
    /\ noInstanceChange
    /\ returned' = Undefined
    /\ cause' = "none"
    /\ IF instance = 0
       THEN IF Falsy(D)
            THEN /\ ret' = "INSTANCE_NEEDS_DEFAULTCONFIGS"
                 /\ made' = 0
                 /\ UNCHANGED <<instances, instance>>
            ELSE /\ ret' = "instance"
                 /\ instances' = Append(instances, NewInstance(D))
                 /\ made' = Len(instances) + 1
                 /\ instance' = Len(instances) + 1
       ELSE /\ ret' = "instance"
            /\ made' = instance
            /\ UNCHANGED <<instances, instance>>

\* Configuration.clearInstance()
clearInstance ==
    /\ lastCall' = Call("clearInstance", {}, FALSE, {})
    /\ opCount' = opCount + 1
    /\ noInstanceChange
    /\ ret' = "void"
    /\ cause' = "none"
    /\ instance' = 0
    /\ made' = 0
    /\ returned' = Undefined
    /\ UNCHANGED instances

\* a static getValue that reads the object made last
staticGetValueOfLatest(key) ==
    /\ lastCall' = Call("Configuration.getValue", {key}, FALSE, {})
    /\ opCount' = opCount + 1
    /\ noInstanceChange
    /\ cause' = "none"
    /\ made' = 0
    /\ UNCHANGED <<instances, instance>>
    /\ IF instances # <<>>
       THEN /\ ret' = "value"
            /\ returned' = ValueOf(instances[Len(instances)].config, key)
       ELSE /\ ret' = "NO_CONFIGURATION_INSTANCE"
            /\ returned' = Undefined

\* Configuration.getValue(key)
staticGetValue(key) ==
    /\ lastCall' = Call("Configuration.getValue", {key}, FALSE, {})
    /\ opCount' = opCount + 1
    /\ noInstanceChange
    /\ cause' = "none"
    /\ made' = 0
    /\ UNCHANGED <<instances, instance>>
    /\ IF instance # 0
       THEN /\ ret' = "value"
            /\ returned' = ValueOf(instances[instance].config, key)
       ELSE /\ ret' = "NO_CONFIGURATION_INSTANCE"
            /\ returned' = Undefined

\* Configuration.getConfigs()
staticGetConfigs ==
    /\ lastCall' = Call("Configuration.getConfigs", {}, FALSE, {})
    /\ opCount' = opCount + 1
    /\ noInstanceChange
    /\ cause' = "none"
    /\ made' = 0
    /\ UNCHANGED <<instances, instance>>
    /\ IF instance # 0
       THEN /\ ret' = "value"
            /\ returned' = instances[instance].config
       ELSE /\ ret' = "NO_CONFIGURATION_INSTANCE"
            /\ returned' = Undefined

\* setConfig(key, value) called on the i-th object made in the run
setConfigOn(i, key, value) ==
    /\ i \in 1..Len(instances)
    /\ lastCall' = Call("setConfigOn", {key}, FALSE, DOMAIN instances[i].dynamicConfig)
    /\ opCount' = opCount + 1
    /\ noInstanceChange
    /\ cause' = "none"
    /\ made' = 0
    /\ returned' = Undefined
    /\ UNCHANGED instance
    /\ LET inst == instances[i]
           conf == Prop(inst.config, key)
           dyn == Spread(inst.dynamicConfig, [k \in {key} |-> DynamicCell(conf, value)])
       IN  IF conf = Undefined
           THEN /\ ret' = "UNKNOWN_CONFIG_KEY"
                /\ UNCHANGED instances
           ELSE IF key \in readOnlyKeys
           THEN /\ ret' = "false"
                /\ UNCHANGED instances
           ELSE /\ ret' = "true"
                /\ instances' =
                     [instances EXCEPT ![i] =
                        [inst EXCEPT !.dynamicConfig = dyn,
                                     !.config = Effective(inst.defaultConfig,
                                                          inst.environmentConfig,
                                                          inst.backendConfig,
                                                          inst.userConfig, dyn)]]

\* ------------------------------------------------------------ level getter
\* the level tags callers pass: the five levels and a tag that is none of them
LevelArgs == {Levels[i] : i \in 1..5} \cup {"NO_SUCH_LEVEL"}

\* a call of getConfigsForLevel(level): the switch has no default branch, so a
\* tag that matches no case returns undefined
readLevel(level) ==
    /\ lastCall' = Call("getConfigsForLevel", {}, FALSE, {})
    /\ opCount' = opCount + 1
    /\ noInstanceChange
    /\ cause' = "none"
    /\ UNCHANGED <<instances, instance, made>>
    /\ ret' = IF getConfigsForLevel(level) = Undefined THEN "undefined" ELSE "value"
    /\ returned' = getConfigsForLevel(level)

\* ----------------------------------------------------- callbacks that act
\* what the body of a subscriber callback does when it is called: nothing, a call
\* of the unsubscribe function its own subscribe call returned, or (the first
\* time it is called) setConfig(NestedKey, NestedValue)
Does == {"nothing", "unsubscribe", "setConfig"}
NestedKey == "bar"
NestedValue == Scalar(2)

\* subscribe(keys, callback) with a callback that acts
subscribeActing(keys, rnd, does) ==
    /\ lastCall' = Call("subscribe", keys, FALSE, {})
    /\ cause' = "none"
    /\ UNCHANGED registry
    /\ window' = Window(lastCall'.op)
    /\ LET id == <<Len(listeners), rnd>>
           token == Len(closures) + 1
       IN  /\ listeners' = Append(listeners,
                                  [id |-> id, keys |-> keys, cb |-> token, does |-> does])
           /\ closures' = Append(closures, [id |-> id, called |-> FALSE])
    /\ ret' = "unsubscribe"
    /\ NoEffect
    /\ opCount' = opCount + 1
    /\ noLoop

\* a pass over the live array, from which the unsubscribe closure has cut the
\* current element: the element after it is skipped
RemainingSpliced(lst, l, called) ==
    IF called /\ l.does = "unsubscribe" /\ Len(lst) > 1
    THEN Tail(Tail(lst))
    ELSE Tail(lst)

\* what forEach still has to visit after l: the unsubscribe closure assigns a new
\* array to this.listeners, and forEach goes on over the array it was called on
Remaining(lst, l, called) == Tail(lst)

\* The state a notification pass works on: this.listeners (lsn), this.dynamicConfig
\* (dyn), this.config (cfg), this.changedKeysBuffer (buffer), the callbacks that
\* have made their setConfig call (fired) and the callback invocations so far (log).
RECURSIVE Pass(_, _)
RECURSIVE Callback(_, _)

\* the body of the callback of listener l, run in state st
Callback(l, st) ==
    IF l.does = "unsubscribe"
    THEN [st EXCEPT !.lsn = SelectSeq(@, LAMBDA x : x.id # l.id)]
    ELSE IF l.does = "setConfig" /\ l.cb \notin st.fired
    THEN LET conf == Prop(st.cfg, NestedKey)
             st1 == [st EXCEPT !.fired = @ \cup {l.cb}]
         IN  IF conf = Undefined \/ NestedKey \in readOnlyKeys
             THEN st1
             ELSE LET dyn == Spread(st1.dyn,
                                    [k \in {NestedKey} |-> DynamicCell(conf, NestedValue)])
                      st2 == [st1 EXCEPT !.dyn = dyn,
                                         !.buffer = @ \cup {NestedKey},
                                         !.cfg = Effective(defaultConfig, environmentConfig,
                                                           backendConfig, userConfig, dyn)]
                  IN  [Pass(st2.lsn, st2) EXCEPT !.buffer = {}]
    ELSE st

\* the forEach of triggerListeners over lst, the array it was called on
Pass(lst, st) ==
    IF lst = <<>> THEN st
    ELSE LET l == Head(lst)
             payload == IF l.keys = {} THEN st.cfg
                        ELSE relevantChanges(l, st.cfg, st.buffer)
             called == l.keys = {} \/ DOMAIN payload # {}
             st1 == IF called
                    THEN [st EXCEPT !.log = Append(@, [cb |-> l.cb, payload |-> payload])]
                    ELSE st
         IN  Pass(Remaining(lst, l, called), IF called THEN Callback(l, st1) ELSE st1)

\* setConfig(key, value) on an instance whose callbacks act
setConfigWithCallbacks(key, value) ==
    /\ lastCall' = Call("setConfig", {key}, FALSE, DOMAIN dynamicConfig)
    /\ cause' = "none"
    /\ UNCHANGED registry
    /\ window' = Window(lastCall'.op)
    /\ opCount' = opCount + 1
    /\ noLoop
    /\ LET conf == getConfig(key)
       IN  IF conf = Undefined
           THEN /\ ret' = "UNKNOWN_CONFIG_KEY"
                /\ NoEffect
                /\ UNCHANGED <<listeners, closures>>
           ELSE IF key \in readOnlyKeys
           THEN /\ ret' = "false"
                /\ NoEffect
                /\ UNCHANGED <<listeners, closures>>
           ELSE LET dyn == Spread(dynamicConfig,
                                  [k \in {key} |-> DynamicCell(conf, value)])
                    st0 == [lsn |-> listeners, dyn |-> dyn,
                            cfg |-> Effective(defaultConfig, environmentConfig,
                                              backendConfig, userConfig, dyn),
                            buffer |-> changedKeysBuffer \cup {key},
                            fired |-> {}, log |-> <<>>]
                    end == Pass(listeners, st0)
                IN  /\ ret' = "true"
                    /\ config' = end.cfg
                    /\ defaultConfig' = Aliased(defaultConfig, "DEFAULT", end.cfg)
                    /\ environmentConfig' = Aliased(environmentConfig, "ENVIRONMENT", end.cfg)
                    /\ backendConfig' = Aliased(backendConfig, "BACKEND", end.cfg)
                    /\ userConfig' = Aliased(userConfig, "USER", end.cfg)
                    /\ dynamicConfig' = Aliased(end.dyn, "DYNAMIC", end.cfg)
                    /\ log' = end.log
                    /\ changedKeysBuffer' = {}
                    /\ listeners' = [n \in 1..Len(end.lsn) |->
                                        IF end.lsn[n].cb \in end.fired
                                        THEN [end.lsn[n] EXCEPT !.does = "nothing"]
                                        ELSE end.lsn[n]]
                    /\ closures' = [t \in 1..Len(closures) |->
                                       IF \E n \in 1..Len(listeners) :
                                             /\ listeners[n].cb = t
                                             /\ listeners[n].does = "unsubscribe"
                                             /\ \E m \in 1..Len(end.log) : end.log[m].cb = t
                                       THEN [closures[t] EXCEPT !.called = TRUE]
                                       ELSE closures[t]]

\* the mutating calls, with scalar values from vs and at most maxOps of them
Mutate(vs, maxOps) ==
    /\ opCount < maxOps
    /\ \/ \E key \in AllKeys, v \in vs : setConfig(key, Scalar(v))
       \/ \E key \in AllKeys : deleteConfig(key)
       \/ \E conf \in PartialsOf(vs), override \in BOOLEAN :
             setEnvironmentConfig(conf, override)
       \/ \E conf \in PartialsOf(vs), override \in BOOLEAN :
             setBackendConfig(conf, override)
       \/ \E conf \in PartialsOf(vs), override \in BOOLEAN :
             setUserConfig(conf, override)

\* level stores and merge engine: no subscriber is registered
Next == Mutate(Vals, MaxOps)

Spec == Init /\ [][Next]_vars

\* subscription registry: subscribers come and go between the mutating calls
NextSub ==
    \/ Mutate({1}, MaxCalls)
    \/ /\ opCount < MaxCalls
       /\ \/ \E keys \in KeyLists, rnd \in 0..MaxRnd : subscribe(keys, rnd)
          \/ \E token \in 1..Len(closures) : unsubscribe(token)
          \/ startBackendAutoUpdate
          \/ \E i \in 1..Len(fetches), res \in PartialsOf({1}) : fetchResolved(i, res)

SpecSub == InitBackend /\ [][NextSub]_vars

\* registry alone: subscribe and unsubscribe calls in any order, with dynamic
\* writes in between
NextReg ==
    /\ opCount < MaxRegCalls
    /\ \/ \E keys \in {{}, {"bar"}}, rnd \in 0..MaxRnd : subscribe(keys, rnd)
       \/ \E token \in 1..Len(closures) : unsubscribe(token)
       \/ setConfig("bar", Scalar(1))

SpecReg == Init /\ [][NextReg]_vars

\* constructed with a backend update function; with backendUpdateStartImmediate
\* the constructor has called runBackendAutoUpdate() and its fetch is awaited
InitLoop ==
    /\ readOnlyKeys = {}
    /\ backendUpdateFn = TRUE
    /\ backendUpdateTimeout = 0
    /\ timers = {}
    /\ timerCount = 0
    /\ fetches \in {<<>>, <<"constructor">>}
    /\ defaultConfig = buildDefaultValues(DefaultValues)
    /\ config = Effective(buildDefaultValues(DefaultValues),
                          EmptyObj, EmptyObj, EmptyObj, EmptyObj)
    /\ environmentConfig = EmptyObj
    /\ backendConfig = EmptyObj
    /\ userConfig = EmptyObj
    /\ dynamicConfig = EmptyObj
    /\ changedKeysBuffer = {}
    /\ listeners = <<>>
    /\ closures = <<>>
    /\ lastCall = Call("new", {}, FALSE, {})
    /\ ret = "void"
    /\ cause = "none"
    /\ log = <<>>
    /\ opCount = 0
    /\ instances = <<>>
    /\ instance = 0
    /\ made = 0
    /\ returned = Undefined
    /\ window = {}

\* a timer that is due fires
TimerDue == \E t \in timers : timerFires(t)

\* an awaited backendUpdateFn call settles
FetchSettles ==
    \/ \E i \in 1..Len(fetches), res \in PartialsOf({1}) : fetchResolved(i, res)
    \/ \E i \in 1..Len(fetches), e \in Errors : fetchRejected(i, e)

\* backend auto-update loop: start and stop calls, timers firing and fetches
\* settling in any order, with one subscriber of all keys
NextLoop ==
    /\ opCount < MaxLoopEvents
    /\ \/ startBackendAutoUpdate
       \/ stopBackendAutoUpdate
       \/ TimerDue
       \/ FetchSettles
       \/ (listeners = <<>> /\ subscribe({}, 0))

SpecLoop == InitLoop /\ [][NextLoop]_vars

\* the loop left to run: stopBackendAutoUpdate() is never called
NextRun ==
    /\ opCount < MaxLoopEvents
    /\ \/ startBackendAutoUpdate
       \/ TimerDue
       \/ FetchSettles
       \/ (listeners = <<>> /\ subscribe({}, 0))

\* the event loop runs every due timer and every awaited call settles; nobody is
\* bound to call start or subscribe
SpecRunFair ==
    /\ InitLoop
    /\ [][NextRun]_vars
    /\ WF_vars(opCount < MaxLoopEvents /\ TimerDue)
    /\ WF_vars(opCount < MaxLoopEvents /\ FetchSettles)

\* subscribers whose callbacks unsubscribe themselves or write, and dynamic writes
NextActing ==
    /\ opCount < MaxActingCalls
    /\ \/ \E keys \in {{}, {"foo"}}, does \in Does : subscribeActing(keys, 0, does)
       \/ \E key \in AllKeys : setConfigWithCallbacks(key, Scalar(1))

SpecActing == Init /\ [][NextActing]_vars

\* constructor and static calls in any order, with dynamic writes to the objects made
NextStatic ==
    /\ opCount < MaxStaticCalls
    /\ \/ \E D \in DefaultsArgs, singleton \in BOOLEAN : construct(D, singleton)
       \/ \E D \in DefaultsArgs : getInstance(D)
       \/ clearInstance
       \/ \E key \in AllKeys : staticGetValue(key)
       \/ staticGetConfigs
       \/ \E i \in 1..Len(instances) : setConfigOn(i, "bar", Scalar(1))

SpecStatic == Init /\ [][NextStatic]_vars

\* constructed with a backend update function and defaults for foo alone, so
\* that bar is a key without a default
InitAccess ==
    /\ readOnlyKeys \in ReadOnlyOptions
    /\ backendUpdateFn = TRUE
    /\ backendUpdateTimeout = 0
    /\ timers = {}
    /\ timerCount = 0
    /\ fetches = <<>>
    /\ defaultConfig = buildDefaultValues([k \in {"foo"} |-> DefaultValues[k]])
    /\ config = Effective(buildDefaultValues([k \in {"foo"} |-> DefaultValues[k]]),
                          EmptyObj, EmptyObj, EmptyObj, EmptyObj)
    /\ environmentConfig = EmptyObj
    /\ backendConfig = EmptyObj
    /\ userConfig = EmptyObj
    /\ dynamicConfig = EmptyObj
    /\ changedKeysBuffer = {}
    /\ listeners = <<>>
    /\ closures = <<>>
    /\ lastCall = Call("new", {}, FALSE, {})
    /\ ret = "void"
    /\ cause = "none"
    /\ log = <<>>
    /\ opCount = 0
    /\ instances = <<>>
    /\ instance = 0
    /\ made = 0
    /\ returned = Undefined
    /\ window = {}

\* writes below the USER level, dynamic writes, backend results and level reads
\* on an object whose defaults leave one key out
NextAccess ==
    /\ opCount < MaxAccessCalls
    /\ \/ \E conf \in PartialsOf({2}), override \in BOOLEAN :
             setEnvironmentConfig(conf, override)
       \/ \E conf \in PartialsOf({2}), override \in BOOLEAN :
             setBackendConfig(conf, override)
       \/ \E key \in AllKeys : setConfig(key, Scalar(2))
       \/ startBackendAutoUpdate
       \/ \E i \in 1..Len(fetches), res \in PartialsOf({2}) : fetchResolved(i, res)
       \/ \E level \in LevelArgs : readLevel(level)

SpecAccess == InitAccess /\ [][NextAccess]_vars

\* ================================================================ claims
\* the five stores, lowest precedence first
StoreAt(i) == getConfigsForLevel(Levels[i])

\* index of the highest-precedence level whose store holds key
HighestIdx(key) ==
    CHOOSE i \in 1..5 : /\ key \in DOMAIN StoreAt(i)
                        /\ \A j \in (i + 1)..5 : key \notin DOMAIN StoreAt(j)

\* the cell below the dynamic level that key falls back to
FallbackCell(key) ==
    IF key \in DOMAIN userConfig THEN userConfig[key]
    ELSE IF key \in DOMAIN backendConfig THEN backendConfig[key]
    ELSE IF key \in DOMAIN environmentConfig THEN environmentConfig[key]
    ELSE defaultConfig[key]

LevelSetters == {"setEnvironmentConfig", "setBackendConfig", "setUserConfig"}

\* the store the last set*Config call wrote
TargetStore ==
    CASE lastCall.op = "setEnvironmentConfig" -> environmentConfig
      [] lastCall.op = "setBackendConfig" -> backendConfig
      [] lastCall.op = "setUserConfig" -> userConfig

\* C1: in every state reached by level writes, dynamic writes and deletes, the
\* effective cell of every default key has the value and the level tag of the cell
\* in the highest-precedence store that holds the key, and getValue returns that value.
C1_Precedence ==
    \A K \in DefaultKeys :
        LET lv == Levels[HighestIdx(K)]
            cell == getConfigsForLevel(lv)[K]
        IN  /\ getConfig(K).typeof = "object"
            /\ getConfig(K).value = cell.value
            /\ getConfig(K).level = cell.level
            /\ cell.level = lv
            /\ getValue(K) = Scalar(cell.value)

\* C1 witness: one key is held by three stores above the default with the dynamic
\* value differing from the user value.
C1_Witness ==
    \E K \in DefaultKeys :
        /\ K \in DOMAIN environmentConfig
        /\ K \in DOMAIN userConfig
        /\ K \in DOMAIN dynamicConfig
        /\ dynamicConfig[K].value # userConfig[K].value
        /\ userConfig[K].value # environmentConfig[K].value

\* C2: setConfig on a read-only key returns false (no error), leaves the five
\* stores and the effective mapping as they were and calls no subscriber; on a
\* known key that is not read-only it returns true.
C2_ReadOnlySetConfig ==
    [][lastCall'.op = "setConfig" =>
       \A key \in AllKeys, v \in Vals :
          setConfig(key, Scalar(v)) =>
            /\ key \in readOnlyKeys =>
                 /\ ret' = "false"
                 /\ log' = <<>>
                 /\ UNCHANGED <<defaultConfig, environmentConfig, backendConfig,
                                userConfig, dynamicConfig, config>>
            /\ (key \notin readOnlyKeys /\ key \in DOMAIN config) => ret' = "true"]_vars

\* C2 witness: setConfig was refused while a subscriber of that very key was registered.
C2_Witness ==
    /\ lastCall.op = "setConfig"
    /\ ret = "false"
    /\ \E i \in 1..Len(listeners) : listeners[i].keys \cap lastCall.keys # {}

C4_DeleteFallsThrough ==
    [][lastCall'.op = "deleteConfig" =>
       \A K \in AllKeys :
          deleteConfig(K) =>
            /\ K \in DOMAIN dynamicConfig => config'[K] = FallbackCell(K)
            /\ DefaultKeys \subseteq DOMAIN config']_vars

\* C4 witness: a key held by DYNAMIC was deleted and its effective cell is now the
\* ENVIRONMENT cell.
C4_Witness ==
    /\ lastCall.op = "deleteConfig"
    /\ \E K \in lastCall.keys \cap lastCall.held :
          /\ K \in DOMAIN environmentConfig
          /\ config[K] = environmentConfig[K]
          /\ config[K].level = "ENVIRONMENT"

\* C5: a set*Config call with override=true leaves in its store exactly the keys
\* of the partial (for USER: its non-read-only keys), with the partial's values.
C5_OverrideReplaces ==
    [][(lastCall'.op \in LevelSetters /\ lastCall'.override) =>
       \A conf \in Partials :
          /\ setEnvironmentConfig(conf, TRUE) =>
               /\ DOMAIN environmentConfig' = DOMAIN conf
               /\ \A k \in DOMAIN conf : environmentConfig'[k].value = conf[k].value
          /\ setBackendConfig(conf, TRUE) =>
               /\ DOMAIN backendConfig' = DOMAIN conf
               /\ \A k \in DOMAIN conf : backendConfig'[k].value = conf[k].value
          /\ setUserConfig(conf, TRUE) =>
               /\ DOMAIN userConfig' = (DOMAIN conf) \ readOnlyKeys
               /\ \A k \in (DOMAIN conf) \ readOnlyKeys :
                    userConfig'[k].value = conf[k].value]_vars

\* C5 witness: an override call dropped a key its store held and wrote another.
C5_Witness ==
    /\ lastCall.op \in LevelSetters
    /\ lastCall.override
    /\ lastCall.held \ lastCall.keys # {}
    /\ lastCall.keys \ lastCall.held # {}
    /\ DOMAIN TargetStore = lastCall.keys

\* C7: a set*Config call without override changes, in its own store, only cells
\* of keys of the partial, and leaves the four other stores as they were.
C7_MergeFrame ==
    [][(lastCall'.op \in LevelSetters /\ ~lastCall'.override) =>
       \A conf \in Partials :
          /\ setEnvironmentConfig(conf, FALSE) =>
               /\ \A k \in AllKeys \ DOMAIN conf :
                    Prop(environmentConfig', k) = Prop(environmentConfig, k)
               /\ UNCHANGED <<defaultConfig, backendConfig, userConfig, dynamicConfig>>
          /\ setBackendConfig(conf, FALSE) =>
               /\ \A k \in AllKeys \ DOMAIN conf :
                    Prop(backendConfig', k) = Prop(backendConfig, k)
               /\ UNCHANGED <<defaultConfig, environmentConfig, userConfig, dynamicConfig>>
          /\ setUserConfig(conf, FALSE) =>
               /\ \A k \in AllKeys \ DOMAIN conf :
                    Prop(userConfig', k) = Prop(userConfig, k)
               /\ UNCHANGED <<defaultConfig, environmentConfig, backendConfig,
                              dynamicConfig>>]_vars

\* C7 witness: a merge call wrote a key into a store that held another key, which
\* is still there, while some other store above the default holds cells too.
C7_Witness ==
    /\ lastCall.op \in LevelSetters
    /\ ~lastCall.override
    /\ lastCall.keys \ lastCall.held # {}
    /\ lastCall.held \ lastCall.keys # {}
    /\ DOMAIN TargetStore = lastCall.held \cup lastCall.keys
    /\ DOMAIN dynamicConfig # {}

\* the calls that rebuild the effective mapping
Rebuilt ==
    \/ lastCall.op \in LevelSetters \cup {"deleteConfig"}
    \/ lastCall.op = "setConfig" /\ ret = "true"
    \/ lastCall.op = "fetchResolved" /\ lastCall.keys # {}

\* the keys the last call wrote or deleted (the keys its arguments name, without
\* the read-only keys setUserConfig drops); empty when the call was refused
TouchedKeys ==
    IF ~Rebuilt THEN {}
    ELSE IF lastCall.op = "setUserConfig" THEN lastCall.keys \ readOnlyKeys
    ELSE lastCall.keys

\* the keys an override call removed from its store
RemovedKeys ==
    IF (lastCall.op \in LevelSetters \/ lastCall.op = "fetchResolved")
       /\ Rebuilt /\ lastCall.override
    THEN lastCall.held \ lastCall.keys
    ELSE {}

\* how often the callback registered under token cb was called by the last call
Invocations(cb) == Cardinality({j \in 1..Len(log) : log[j].cb = cb})

\* the registration a callback token belongs to
ListenerOf(cb) == CHOOSE l \in {listeners[i] : i \in 1..Len(listeners)} : l.cb = cb

\* C6: when an override call removes a key K from its store, every subscriber
\* registered for K is called with K's new effective cell.
C6_RemovedKeysNotified ==
    \A K \in RemovedKeys :
        \A i \in 1..Len(listeners) :
            K \in listeners[i].keys =>
                \E j \in 1..Len(log) :
                    /\ log[j].cb = listeners[i].cb
                    /\ K \in DOMAIN log[j].payload
                    /\ log[j].payload[K] = config[K]

\* C8: a callback registered with a non-empty key list is only called with a
\* non-empty payload, whose keys are exactly the listed keys the call touched,
\* each mapped to its effective cell after the call.
C8_FilteredPayload ==
    \A j \in 1..Len(log) :
        LET l == ListenerOf(log[j].cb) IN
        l.keys # {} =>
            /\ DOMAIN log[j].payload = l.keys \cap TouchedKeys
            /\ DOMAIN log[j].payload # {}
            /\ \A k \in DOMAIN log[j].payload : log[j].payload[k] = config[k]

\* C8 witness: a subscriber of both keys was called with a payload of one key.
C8_Witness ==
    \E j \in 1..Len(log) :
        /\ ListenerOf(log[j].cb).keys = AllKeys
        /\ Cardinality(DOMAIN log[j].payload) = 1

\* C9: each accepted mutating call (and each applied backend result) calls every
\* subscriber whose key list holds a touched key exactly once, with one payload
\* carrying all its touched keys, and calls no other keyed subscriber; summed
\* over the calls this gives the number of invocations of a subscriber.
C9_ExactlyOnce ==
    \A i \in 1..Len(listeners) :
        LET l == listeners[i] IN
        (Rebuilt /\ l.keys # {}) =>
            IF l.keys \cap TouchedKeys # {}
            THEN /\ Invocations(l.cb) = 1
                 /\ \E j \in 1..Len(log) :
                       /\ log[j].cb = l.cb
                       /\ DOMAIN log[j].payload = l.keys \cap TouchedKeys
            ELSE Invocations(l.cb) = 0

\* C9 witness: an applied backend result touched two keys of one subscriber, which
\* was called once.
C9_Witness ==
    /\ lastCall.op = "fetchResolved"
    /\ \E i \in 1..Len(listeners) :
          /\ Cardinality(listeners[i].keys \cap TouchedKeys) = 2
          /\ Invocations(listeners[i].cb) = 1

\* C10: a subscriber registered with an empty key list is called on every rebuild
\* with the full effective mapping, whatever keys the call touched.
C10_EmptyKeysGetAll ==
    Rebuilt =>
        \A i \in 1..Len(listeners) :
            listeners[i].keys = {} =>
                /\ Invocations(listeners[i].cb) = 1
                /\ \A j \in 1..Len(log) :
                      log[j].cb = listeners[i].cb => log[j].payload = config

\* C10 witness: a rebuild that touched no key called a subscriber of all keys.
C10_Witness ==
    /\ Rebuilt
    /\ TouchedKeys = {}
    /\ \E i \in 1..Len(listeners) :
          /\ listeners[i].keys = {}
          /\ Invocations(listeners[i].cb) = 1

\* whether the last call called the callback of listener l with key K in the payload
Notified(l, K) ==
    \E j \in 1..Len(log) : log[j].cb = l.cb /\ K \in DOMAIN log[j].payload

\* C11: a write that touches key K calls every subscriber registered for K with K
\* in the payload, whether or not the effective cell of K differs from the one
\* before the write.
C11_WriteTriggered ==
    \A K \in TouchedKeys :
        \A i \in 1..Len(listeners) :
            K \in listeners[i].keys => Notified(listeners[i], K)

\* C11 witness: an ENVIRONMENT write to a key that the DYNAMIC store overrides (its
\* effective cell is the dynamic cell before and after) called the subscriber of
\* that key.
C11_Witness ==
    /\ lastCall.op = "setEnvironmentConfig"
    /\ \E K \in lastCall.keys \cap DOMAIN dynamicConfig :
          /\ config[K] = dynamicConfig[K]
          /\ \E i \in 1..Len(listeners) :
                /\ listeners[i].keys = {K}
                /\ Notified(listeners[i], K)

\* the registrations other than the one made by the token-th subscribe call
Others(token) == SelectSeq(listeners, LAMBDA l : l.cb # token)

\* C12: calling the unsubscribe function of a registration that is still in the
\* registry removes that registration and no other.
C12_RemovesExactlyThat ==
    [][\A token \in 1..Len(closures) :
          (unsubscribe(token) /\ ~closures[token].called) =>
              listeners' = Others(token)]_vars

\* C13: calling an unsubscribe function that has been called before leaves the
\* registry as it is and raises no error.
C13_SecondCallNoEffect ==
    [][\A token \in 1..Len(closures) :
          (unsubscribe(token) /\ closures[token].called) =>
              (listeners' = listeners /\ ret' = "void")]_vars

\* C14: a callback whose unsubscribe function has returned is not in the registry
\* and is not called by any later call.
C14_NeverAgain ==
    \A token \in 1..Len(closures) :
        closures[token].called =>
            /\ \A i \in 1..Len(listeners) : listeners[i].cb # token
            /\ \A j \in 1..Len(log) : log[j].cb # token

\* C14 witness: after one of two subscribers unsubscribed, an accepted write called
\* the other one.
C14_Witness ==
    /\ lastCall.op = "setConfig"
    /\ ret = "true"
    /\ \E token \in 1..Len(closures) : closures[token].called
    /\ \E j \in 1..Len(log) : ~closures[log[j].cb].called

\* C15: a resolved fetch leaves in the BACKEND store exactly the keys of its
\* result, with the result's values, the empty result included.
C15_ResultReplacesBackend ==
    [][\A i \in 1..Len(fetches), res \in PartialsOf({1}) :
          fetchResolved(i, res) =>
              /\ DOMAIN backendConfig' = DOMAIN res
              /\ \A k \in DOMAIN res : backendConfig'[k].value = res[k].value]_vars

\* C16: startBackendAutoUpdate() called while a fetch of the loop is awaited or a
\* timer of the loop is pending does not call the backend update function.
C16_StartIsNoOpWhileRunning ==
    [][(startBackendAutoUpdate /\ (fetches # <<>> \/ timers # {})) =>
          fetches' = fetches]_vars

\* C17: in the step that follows stopBackendAutoUpdate(), unless that step is a
\* startBackendAutoUpdate() call, no timer is pending or scheduled and the backend
\* update function is not called.
C17_StoppedStaysStopped ==
    [][(lastCall.op = "stopBackendAutoUpdate" /\ ~startBackendAutoUpdate) =>
          (timers' = {} /\ Len(fetches') <= Len(fetches))]_vars

\* the five level stores and the effective mapping
Stores == <<defaultConfig, environmentConfig, backendConfig, userConfig,
            dynamicConfig, config>>

\* C18: when the fetch made by startBackendAutoUpdate() rejects with error e, the
\* call fails with BACKEND_UPDATE_FAILED whose cause is e, the stores and the
\* effective mapping stay as they are, no subscriber is called, no timer is
\* scheduled and the timeout handle stays as it was; with the handle still null,
\* the next startBackendAutoUpdate() calls the backend update function again.
C18_FirstFetchFails ==
    [][/\ \A i \in 1..Len(fetches), e \in Errors :
            (fetchRejected(i, e) /\ fetches[i] = "start") =>
                /\ ret' = "BACKEND_UPDATE_FAILED"
                /\ cause' = e
                /\ Stores' = Stores
                /\ log' = <<>>
                /\ UNCHANGED <<timers, timerCount, backendUpdateTimeout>>
       /\ (lastCall.op = "startFetchRejected" /\ backendUpdateTimeout = 0
              /\ startBackendAutoUpdate) =>
                (ret' = "pending" /\ Len(fetches') = Len(fetches) + 1)]_vars

\* C18 witness: with a subscriber registered and a backend value applied earlier,
\* a restarted loop's first fetch was rejected with the second error and left the
\* loop stopped.
C18_Witness ==
    /\ lastCall.op = "startFetchRejected"
    /\ ret = "BACKEND_UPDATE_FAILED"
    /\ cause = "E2"
    /\ listeners # <<>>
    /\ DOMAIN backendConfig # {}
    /\ backendUpdateTimeout = 0
    /\ timers = {}
    /\ fetches = <<>>

\* the backend update function was called by the last call or event
FetchInvoked ==
    \/ lastCall.op = "timer"
    \/ lastCall.op = "startBackendAutoUpdate" /\ ret = "pending"

\* the run is at its last event
RunEnds == opCount = MaxLoopEvents

\* C19: in a run without stop calls, after a fetch made by a timer callback is
\* rejected the backend update function is eventually called again.
C19_LoopResumes ==
    (lastCall.op = "timerFetchRejected") ~> (FetchInvoked \/ RunEnds)

\* C20: in a run without stop calls, every applied fetch result is eventually
\* followed by a call of the backend update function; a timer is scheduled only by the
\* step that completes a fetch and applies its result, and the timer callback is
\* the only loop step that calls the function.
C20_LoopRepeats ==
    /\ (lastCall.op = "fetchResolved") ~> (FetchInvoked \/ RunEnds)
    /\ [][/\ (timers' \ timers # {}) =>
               (lastCall'.op = "fetchResolved" /\ Len(fetches') = Len(fetches) - 1)
          /\ (lastCall'.op = "timer") =>
               (Len(fetches') = Len(fetches) + 1 /\ Cardinality(timers') < Cardinality(timers))
         ]_vars

\* C20 witness: the loop is in its third round: two results were applied, each
\* scheduled a timer, and the second timer's callback has called the function.
C20_Witness ==
    /\ lastCall.op = "timer"
    /\ timerCount = 2
    /\ fetches = <<"timer">>
    /\ DOMAIN backendConfig # {}

\* the defaults objects among the constructor arguments
DefaultsObjects == DefaultsArgs \ {Undefined}

\* C21: a constructor call with singleton: true returns the registered singleton
\* as it is when one exists, whatever defaults it is given; when none is
\* registered (none made yet, or after clearInstance()) it returns and registers
\* an object that is none of the objects made before, built from its defaults.
C21_SingletonIdentity ==
    [][\A D \in DefaultsArgs :
          construct(D, TRUE) =>
              IF instance # 0
              THEN /\ made' = instance
                   /\ UNCHANGED <<instances, instance>>
              ELSE D \in DefaultsObjects =>
                     /\ made' \notin 1..Len(instances)
                     /\ instance' = made'
                     /\ instances'[made'] = NewInstance(D)
                     /\ \A i \in 1..Len(instances) : instances'[i] = instances[i]]_vars

\* C21 witness: after a singleton was made and cleared, a singleton construction
\* with other defaults returned a second object, which is now registered.
C21_Witness ==
    /\ lastCall.op = "constructSingleton"
    /\ Len(instances) = 2
    /\ made = 2
    /\ instance = 2
    /\ instances[1].defaultConfig # instances[2].defaultConfig

\* C22: a constructor call without singleton leaves Configuration.instance as it
\* is and returns an object that is none of the objects made before, the
\* registered singleton included.
C22_PlainConstructionIsFresh ==
    [][\A D \in DefaultsArgs :
          construct(D, FALSE) =>
              /\ instance' = instance
              /\ D \in DefaultsObjects =>
                    /\ made' \notin 1..Len(instances)
                    /\ made' # instance
                    /\ instances'[made'] = NewInstance(D)]_vars

\* C22 witness: with a singleton registered, a plain construction returned another
\* object and the registry still points to the singleton.
C22_Witness ==
    /\ lastCall.op = "construct"
    /\ instance # 0
    /\ made # 0
    /\ made # instance

\* C23: Configuration.getValue and Configuration.getConfigs fail with
\* NO_CONFIGURATION_INSTANCE when Configuration.instance is null, and otherwise
\* return getValue(key) and the effective mapping of the registered singleton.
C23_StaticAccessors ==
    [][/\ \A key \in AllKeys :
            staticGetValue(key) =>
                IF instance = 0
                THEN ret' = "NO_CONFIGURATION_INSTANCE"
                ELSE /\ ret' = "value"
                     /\ returned' = ValueOf(instances[instance].config, key)
       /\ staticGetConfigs =>
                IF instance = 0
                THEN ret' = "NO_CONFIGURATION_INSTANCE"
                ELSE /\ ret' = "value"
                     /\ returned' = instances[instance].config]_vars

\* C23 witness: Configuration.getValue returned a value written dynamically to
\* the singleton, while an object made later holds another value for the key.
C23_Witness ==
    /\ lastCall.op = "Configuration.getValue"
    /\ ret = "value"
    /\ instance # 0
    /\ instance < Len(instances)
    /\ \E K \in lastCall.keys :
          /\ K \in DOMAIN instances[instance].dynamicConfig
          /\ returned = Scalar(instances[instance].dynamicConfig[K].value)
          /\ returned # ValueOf(instances[Len(instances)].config, K)

\* C24: getInstance with no singleton registered makes and registers one from the
\* defaults, or fails with INSTANCE_NEEDS_DEFAULTCONFIGS and registers nothing
\* when it is given none; with a singleton registered it returns that object as
\* it is, whatever it is given.
C24_GetInstance ==
    [][\A D \in DefaultsArgs :
          getInstance(D) =>
              IF instance # 0
              THEN /\ ret' = "instance"
                   /\ made' = instance
                   /\ UNCHANGED <<instances, instance>>
              ELSE IF D = Undefined
              THEN /\ ret' = "INSTANCE_NEEDS_DEFAULTCONFIGS"
                   /\ made' = 0
                   /\ UNCHANGED <<instances, instance>>
              ELSE /\ ret' = "instance"
                   /\ made' \notin 1..Len(instances)
                   /\ instance' = made'
                   /\ instances'[made'] = NewInstance(D)]_vars

\* C24 witness: getInstance returned the singleton registered by an earlier call,
\* which has been written to since, although another object has been made.
C24_Witness ==
    /\ lastCall.op = "getInstance"
    /\ ret = "instance"
    /\ made = instance
    /\ made # 0
    /\ made < Len(instances)
    /\ DOMAIN instances[made].dynamicConfig # {}

\* C25: the object a constructor call builds from defaults D has empty
\* ENVIRONMENT, BACKEND, USER and DYNAMIC stores and a DEFAULT store with exactly
\* the keys of D; for every key of D getValue gives D's value and the effective
\* cell has level DEFAULT.
C25_DefaultCompleteness ==
    [][\A D \in DefaultsObjects, singleton \in BOOLEAN :
          (construct(D, singleton) /\ made' \notin 1..Len(instances)) =>
              LET inst == instances'[made'] IN
              /\ inst.environmentConfig = EmptyObj
              /\ inst.backendConfig = EmptyObj
              /\ inst.userConfig = EmptyObj
              /\ inst.dynamicConfig = EmptyObj
              /\ DOMAIN inst.defaultConfig = DOMAIN D
              /\ DOMAIN inst.config = DOMAIN D
              /\ \A K \in DOMAIN D :
                    /\ ValueOf(inst.config, K) = D[K]
                    /\ inst.config[K].level = "DEFAULT"]_vars

\* C25 witness: an object was just built from the second defaults object.
C25_Witness ==
    /\ lastCall.op \in {"construct", "constructSingleton"}
    /\ made = Len(instances)
    /\ made # 0
    /\ ValueOf(instances[made].config, "foo") = OtherDefaults["foo"]
    /\ instances[made].dynamicConfig = EmptyObj

\* C29: a constructor call whose defaults are not an object fails with the
\* ConfigurationError DEFAULTCONFIG_MUST_BE_OBJECT and leaves
\* Configuration.instance as it is.
C29_InvalidDefaultsRejected ==
    [][\A D \in DefaultsArgs \ DefaultsObjects, singleton \in BOOLEAN :
          construct(D, singleton) =>
              /\ ret' = "DEFAULTCONFIG_MUST_BE_OBJECT"
              /\ instance' = instance]_vars

\* the effective cell of K is the cell just written at level, carrying value
EffectiveIs(K, level, value) ==
    /\ ValueOf(config', K) = value
    /\ config'[K].level = level

\* C26: setEnvironmentConfig, setBackendConfig and an applied backend result
\* store a cell for every read-only key of their partial, and that cell is the
\* effective one when no higher level holds the key.
C26_LowerLevelsUnfiltered ==
    [][/\ \A conf \in Partials, override \in BOOLEAN :
            /\ setEnvironmentConfig(conf, override) =>
                  \A K \in (DOMAIN conf) \cap readOnlyKeys :
                      /\ K \in DOMAIN environmentConfig'
                      /\ environmentConfig'[K].value = conf[K].value
                      /\ K \notin (DOMAIN backendConfig' \cup DOMAIN userConfig'
                                     \cup DOMAIN dynamicConfig')
                            => EffectiveIs(K, "ENVIRONMENT", conf[K])
            /\ setBackendConfig(conf, override) =>
                  \A K \in (DOMAIN conf) \cap readOnlyKeys :
                      /\ K \in DOMAIN backendConfig'
                      /\ backendConfig'[K].value = conf[K].value
                      /\ K \notin (DOMAIN userConfig' \cup DOMAIN dynamicConfig')
                            => EffectiveIs(K, "BACKEND", conf[K])
       /\ \A i \in 1..Len(fetches), res \in Partials :
            (fetchResolved(i, res) /\ DOMAIN res # {}) =>
                  \A K \in (DOMAIN res) \cap readOnlyKeys :
                      /\ K \in DOMAIN backendConfig'
                      /\ backendConfig'[K].value = res[K].value
                      /\ K \notin (DOMAIN userConfig' \cup DOMAIN dynamicConfig')
                            => EffectiveIs(K, "BACKEND", res[K])]_vars

\* C26 witness: a backend result gave a read-only key a value other than its
\* default, and it is the effective value.
C26_Witness ==
    /\ lastCall.op = "fetchResolved"
    /\ \E K \in lastCall.keys \cap readOnlyKeys :
          /\ config[K].level = "BACKEND"
          /\ config[K].readonly
          /\ getValue(K) # Scalar(defaultConfig[K].value)

\* C27: setConfig on a key that the DEFAULT store does not hold fails with
\* UNKNOWN_CONFIG_KEY, whatever the other stores hold, and changes no store, not
\* the effective mapping, and calls no subscriber.
C27_UnknownKeyRejected ==
    [][\A key \in AllKeys, v \in Vals :
          (setConfig(key, Scalar(v)) /\ key \notin DOMAIN defaultConfig) =>
              /\ ret' = "UNKNOWN_CONFIG_KEY"
              /\ Stores' = Stores
              /\ log' = <<>>]_vars

\* C28: getConfigsForLevel fails with UNKNOWN_CONFIG_LEVEL for a tag that is none
\* of the five levels, and returns the store of the level for a valid tag.
C28_UnknownLevelRejected ==
    [][\A level \in LevelArgs :
          readLevel(level) =>
              IF \E i \in 1..5 : Levels[i] = level
              THEN ret' = "value" /\ returned' = getConfigsForLevel(level)
              ELSE ret' = "UNKNOWN_CONFIG_LEVEL"]_vars

\* C30: deleteConfig(K) takes K out of the DYNAMIC store, keeps every other
\* dynamic cell and the four other stores as they are, and changes neither a
\* store nor the effective mapping when the DYNAMIC store does not hold K.
C30_DeleteFrame ==
    [][lastCall'.op = "deleteConfig" =>
       \A K \in AllKeys :
          deleteConfig(K) =>
              /\ DOMAIN dynamicConfig' = (DOMAIN dynamicConfig) \ {K}
              /\ \A k \in DOMAIN dynamicConfig' : dynamicConfig'[k] = dynamicConfig[k]
              /\ UNCHANGED <<defaultConfig, environmentConfig, backendConfig, userConfig>>
              /\ K \notin DOMAIN dynamicConfig => Stores' = Stores]_vars

\* C30 witness: deleteConfig was called for a key the DYNAMIC store did not hold
\* while it held the other key, which is still there, and the USER store holds
\* cells too.
C30_Witness ==
    /\ lastCall.op = "deleteConfig"
    /\ lastCall.keys \cap lastCall.held = {}
    /\ lastCall.held # {}
    /\ DOMAIN dynamicConfig = lastCall.held
    /\ DOMAIN userConfig # {}

\* C31: neither the USER store nor the DYNAMIC store ever holds a cell for a
\* read-only key, so the effective cell of a read-only key is a DEFAULT,
\* ENVIRONMENT or BACKEND cell.
C31_ReadOnlyNeverUserOrDynamic ==
    \A K \in readOnlyKeys :
        /\ K \notin DOMAIN userConfig
        /\ K \notin DOMAIN dynamicConfig
        /\ config[K].level \in {"DEFAULT", "ENVIRONMENT", "BACKEND"}

\* C31 witness: setUserConfig was called with a read-only key and a writable one;
\* the writable one is in the USER store and the read-only key's effective cell
\* is the ENVIRONMENT cell written before.
C31_Witness ==
    /\ lastCall.op = "setUserConfig"
    /\ lastCall.keys \cap readOnlyKeys # {}
    /\ DOMAIN userConfig # {}
    /\ \E K \in readOnlyKeys : config[K].level = "ENVIRONMENT"

\* C32: the readonly flag of every effective cell is true exactly when its key is
\* in readOnlyKeys, whatever level the cell is from.
C32_FlagFollowsMembership ==
    \A K \in DOMAIN config : config[K].readonly = (K \in readOnlyKeys)

\* C32 witness: a read-only key whose effective cell is a BACKEND cell, flagged,
\* next to a writable key whose effective cell is a DYNAMIC cell, not flagged.
C32_Witness ==
    /\ \E K \in readOnlyKeys : config[K].level = "BACKEND" /\ config[K].readonly
    /\ \E J \in DOMAIN config \ readOnlyKeys :
          config[J].level = "DYNAMIC" /\ ~config[J].readonly

\* C33: getConfigsForLevel(DEFAULT) returns, in every state, the keys, values and
\* level tags it returned right after construction.
C33_DefaultImmutable ==
    getConfigsForLevel("DEFAULT") = buildDefaultValues(DefaultValues)

\* C33 witness: a backend result has been applied and a key is held by the BACKEND
\* and the DYNAMIC store with a value other than its default.
C33_Witness ==
    /\ timerCount > 0
    /\ \E K \in DOMAIN backendConfig \cap DOMAIN dynamicConfig :
          /\ config[K].level = "DYNAMIC"
          /\ config[K].value # DefaultValues[K].value
          /\ defaultConfig[K].value = DefaultValues[K].value

\* C34: issuing a fetch changes no store and no effective cell, and no call other
\* than a resolving fetch or setBackendConfig changes the BACKEND store while a
\* fetch is awaited; setConfig, deleteConfig, setEnvironmentConfig and
\* setUserConfig calls made meanwhile take effect in their stores at once; and
\* applying the fetch result leaves the ENVIRONMENT, USER and DYNAMIC stores as
\* those calls left them.
C34_FetchWindow ==
    [][/\ startBackendAutoUpdate => Stores' = Stores
       /\ (fetches # <<>> /\ lastCall'.op \notin {"fetchResolved", "setBackendConfig"})
             => backendConfig' = backendConfig
       /\ fetches # <<>> =>
             /\ \A key \in AllKeys \ readOnlyKeys, v \in Vals :
                   setConfig(key, Scalar(v)) =>
                       /\ key \in DOMAIN dynamicConfig'
                       /\ dynamicConfig'[key].value = v
                       /\ ValueOf(config', key) = Scalar(v)
             /\ \A key \in AllKeys :
                   deleteConfig(key) => key \notin DOMAIN dynamicConfig'
             /\ \A conf \in Partials, override \in BOOLEAN :
                   /\ setEnvironmentConfig(conf, override) =>
                         \A k \in DOMAIN conf :
                             /\ k \in DOMAIN environmentConfig'
                             /\ environmentConfig'[k].value = conf[k].value
                   /\ setUserConfig(conf, override) =>
                         \A k \in (DOMAIN conf) \ readOnlyKeys :
                             /\ k \in DOMAIN userConfig'
                             /\ userConfig'[k].value = conf[k].value
       /\ \A i \in 1..Len(fetches), res \in Partials :
             fetchResolved(i, res) =>
                 UNCHANGED <<environmentConfig, userConfig, dynamicConfig>>]_vars

\* C34 witness: setConfig was called while a fetch was awaited, the fetch has
\* resolved with a result that was applied, and the dynamic cell is still there.
C34_Witness ==
    /\ lastCall.op = "fetchResolved"
    /\ lastCall.keys # {}
    /\ "setConfig" \in window
    /\ fetches = <<>>
    /\ timerCount = 1
    /\ DOMAIN dynamicConfig # {}
    /\ DOMAIN backendConfig = lastCall.keys

\* C35: stopBackendAutoUpdate() clears the pending timer and leaves the awaited
\* fetches alone; a fetch that resolves after a stop() made while it was awaited
\* still replaces the BACKEND store by its result and calls the subscribers.
C35_StopLeavesFetch ==
    [][/\ stopBackendAutoUpdate =>
             /\ fetches' = fetches
             /\ timers' = timers \ {backendUpdateTimeout}
       /\ \A i \in 1..Len(fetches), res \in Partials :
             ("stopBackendAutoUpdate" \in window /\ fetchResolved(i, res)
                /\ DOMAIN res # {}) =>
                 /\ DOMAIN backendConfig' = DOMAIN res
                 /\ \A k \in DOMAIN res : backendConfig'[k].value = res[k].value
                 /\ \A j \in 1..Len(listeners) :
                       (listeners[j].keys = {} \/ listeners[j].keys \cap DOMAIN res # {})
                         => \E n \in 1..Len(log') : log'[n].cb = listeners[j].cb]_vars

\* C35 witness: a subscriber was registered, stop() was called while the fetch made
\* by the constructor was awaited, and that fetch then resolved: its result is in
\* the BACKEND store and the subscriber was called.
C35_Witness ==
    /\ lastCall.op = "fetchResolved"
    /\ "stopBackendAutoUpdate" \in window
    /\ opCount = 3
    /\ listeners # <<>>
    /\ lastCall.keys # {}
    /\ DOMAIN backendConfig = lastCall.keys
    /\ log # <<>>

\* C36: the changed-keys buffer is empty whenever a call has returned; a subscribe
\* call delivers nothing, and a call delivers to a subscriber of given keys only
\* keys that this call names.
C36_BufferDeliveredAndCleared ==
    /\ [](changedKeysBuffer = {})
    /\ [][/\ lastCall'.op = "subscribe" => log' = <<>>
          /\ \A j \in 1..Len(listeners) :
                listeners[j].keys # {} =>
                    \A n \in 1..Len(log') :
                        log'[n].cb = listeners[j].cb
                          => DOMAIN log'[n].payload \subseteq lastCall'.keys]_vars

\* C36 witness: the first subscriber was registered after a dynamic write; it was
\* not called and the buffer is empty.
C36_Witness ==
    /\ lastCall.op = "subscribe"
    /\ Len(closures) = 1
    /\ DOMAIN dynamicConfig # {}
    /\ changedKeysBuffer = {}
    /\ log = <<>>

\* C38: every cell that getConfigsForLevel(L) returns carries the level tag L, for
\* each of the five levels.
C38_CellsCarryStoreLevel ==
    \A i \in 1..5 :
        \A k \in DOMAIN getConfigsForLevel(Levels[i]) :
            getConfigsForLevel(Levels[i])[k].level = Levels[i]

\* C38 witness: one key is held by the DEFAULT, ENVIRONMENT, USER and DYNAMIC
\* stores at once, with a different value in the DYNAMIC store than in the
\* DEFAULT store.
C38_Witness ==
    \E K \in DOMAIN environmentConfig \cap DOMAIN userConfig \cap DOMAIN dynamicConfig :
        /\ defaultConfig[K].level = "DEFAULT"
        /\ environmentConfig[K].level = "ENVIRONMENT"
        /\ userConfig[K].level = "USER"
        /\ dynamicConfig[K].level = "DYNAMIC"
        /\ dynamicConfig[K].value # defaultConfig[K].value

\* C39: whenever backendUpdateTimeout is not null, so that
\* startBackendAutoUpdate() would return true without fetching, a timer is
\* pending or a fetch is awaited.
C39_RunningIndicatorAccurate ==
    backendUpdateTimeout # 0 => (timers # {} \/ fetches # <<>>)

\* the number of times the callback cb was called during the call just made
CallsOf(cb) == Cardinality({n \in 1..Len(log') : log'[n].cb = cb})

\* the listeners the pass of a write to key delivers to
Delivered(key) ==
    {j \in 1..Len(listeners) : listeners[j].keys = {} \/ key \in listeners[j].keys}

\* C37: when a callback calls its own unsubscribe function during a pass, every
\* observer registered for the touched key at the start of the pass is called
\* exactly once in that pass (no callback of the pass writes), the observer that
\* unsubscribed is no longer registered, and a pass only ever calls observers that
\* were registered when it started.
C37_SelfUnsubscribeKeepsPass ==
    [][\A key \in AllKeys, v \in Vals :
          (setConfigWithCallbacks(key, Scalar(v)) /\ ret' = "true") =>
              /\ \A n \in 1..Len(log') :
                    \E j \in 1..Len(listeners) : listeners[j].cb = log'[n].cb
              /\ \A j \in Delivered(key) :
                    listeners[j].does = "unsubscribe" =>
                        \A n \in 1..Len(listeners') : listeners'[n].cb # listeners[j].cb
              /\ ((\E j \in Delivered(key) : listeners[j].does = "unsubscribe")
                   /\ (\A j \in 1..Len(listeners) : listeners[j].does # "setConfig"))
                    => \A j \in 1..Len(listeners) :
                          CallsOf(listeners[j].cb) = (IF j \in Delivered(key) THEN 1 ELSE 0)]_vars

\* C37 witness: a write called two callbacks; the first unsubscribed itself during
\* the pass, the second, registered after it, was still called and is the only
\* one left.
C37_Witness ==
    /\ lastCall.op = "setConfig"
    /\ ret = "true"
    /\ Len(log) = 2
    /\ log[1].cb # log[2].cb
    /\ closures[log[1].cb].called
    /\ Len(listeners) = 1
    /\ listeners[1].cb = log[2].cb

\* C40: when a callback writes another key during the pass of a write to key K,
\* every subscriber registered for K is called with K in the payload exactly once
\* during the whole call.
C40_NestedWriteDeliversOnce ==
    [][\A K \in AllKeys \ {NestedKey}, v \in Vals :
          (/\ setConfigWithCallbacks(K, Scalar(v))
           /\ ret' = "true"
           /\ \E j \in Delivered(K) : listeners[j].does = "setConfig") =>
              \A j \in 1..Len(listeners) :
                  K \in listeners[j].keys =>
                      Cardinality({n \in 1..Len(log') :
                                      /\ log'[n].cb = listeners[j].cb
                                      /\ K \in DOMAIN log'[n].payload}) = 1]_vars

=============================================================================
